---- MODULE Spec2Model ----
(***************************************************************************)
(* Model of autogain.py: the dynamic microphone gain control loop          *)
(* (dynamic_gain_control) with its helpers get_gain_db, set_gain_db,       *)
(* capture_audio, bandpass_filter and measure_rms.                         *)
(*                                                                         *)
(* Units.  RMS values and thresholds are integers in units of 1e-7, so     *)
(* NO_SIGNAL_THRESHOLD = 1e-6 is 10, NOISE_THRESHOLD_LOW = 0.001 is 10000  *)
(* and NOISE_THRESHOLD_HIGH = 0.01 is 100000.  Gains that the program      *)
(* holds as Python floats (the value parsed from amixer, the stepped       *)
(* value, the clamped value) are fixed-point integers in units of 1/Scale  *)
(* dB; the value formatted into the amixer command, int(gain_db), is a     *)
(* whole number of dB.                                                     *)
(*                                                                         *)
(* Calibration.  The amplitudes of calibrate_and_propose are kept exact, as *)
(* a fraction times a power 10^(x/20); the float rounding of Python is not  *)
(* modelled.  A power is turned into a number where it is a whole power of  *)
(* ten, so the microphone profiles of a session are those whose full-scale  *)
(* amplitude is a whole number of decades away from the default one.        *)
(* Clipping levels and sensitivities are fixed-point like the gains.        *)
(***************************************************************************)
EXTENDS Integers, Sequences, FiniteSets, TLC

VARIABLES
    cfg,              \* the module-level configuration constants of a run
    pc,               \* position of dynamic_gain_control
    no_signal_count,  \* local of dynamic_gain_control (line 262)
    audio,            \* local: result of capture_audio (line 265)
    rms,              \* local: result of measure_rms (line 272)
    current_gain,     \* local: result of get_gain_db (line 285)
    hw_gain,          \* the gain of the amixer control (the actuator), fixed-point
    startup_write,    \* what the startup set_gain_db call handed to amixer
    cyc,              \* what the current loop iteration has done so far
    hist,             \* silence flags of the latest measured iterations
    cal               \* the calibration session of main (--calibrate)

vars == <<cfg, pc, no_signal_count, audio, rms, current_gain, hw_gain,
          startup_write, cyc, hist, cal>>

\* ------------------------------------------------------------------ bounds

\* Resolution of the fixed-point gains: 1/Scale dB.
Scale == 2
\* The actuator can be found (or moved out of band) this many dB outside
\* [MIN_GAIN_DB, MAX_GAIN_DB].
GainMargin == 2
\* The silent captures stop once no_signal_count has reached MaxCount.
MaxCount == 4

\* --------------------------------------------------------- configuration

MIN_GAIN_DB == 30
MAX_GAIN_DB == 38
GAIN_STEP_DB == 3
NOISE_THRESHOLD_HIGH == 100000
NOISE_THRESHOLD_LOW == 10000
NO_SIGNAL_THRESHOLD == 10
NO_SIGNAL_COUNT_THRESHOLD == 3
SAMPLING_RATE == 48000
LOWCUT == 2000
HIGHCUT == 8000

\* A Python value that may be None: <<>> is None, <<v>> is the value v.
NoneV == <<>>
Some(v) == <<v>>
Val(o) == o[1]

Db(n) == n * Scale

Min2(a, b) == IF a < b THEN a ELSE b
Max2(a, b) == IF a > b THEN a ELSE b

\* The configuration as shipped (lines 25-43).
DefaultCfg ==
    [noise_low |-> NOISE_THRESHOLD_LOW, noise_high |-> NOISE_THRESHOLD_HIGH,
     lowcut |-> LOWCUT, highcut |-> HIGHCUT]

\* The configurations of a run: the shipped one and edits of its thresholds
\* and cut-off frequencies (the constants are edited in place, by hand or by
\* persist_calibration_to_script).
Configs ==
    { DefaultCfg,
      [DefaultCfg EXCEPT !.noise_low = NOISE_THRESHOLD_HIGH],
      [DefaultCfg EXCEPT !.noise_low = NOISE_THRESHOLD_HIGH,
                         !.noise_high = NOISE_THRESHOLD_LOW],
      [DefaultCfg EXCEPT !.lowcut = HIGHCUT, !.highcut = LOWCUT],
      [DefaultCfg EXCEPT !.highcut = SAMPLING_RATE \div 2] }

\* RMS values a capture can measure to, around each threshold.
Levels == {0, NO_SIGNAL_THRESHOLD - 1, NO_SIGNAL_THRESHOLD,
           NOISE_THRESHOLD_LOW - 1, NOISE_THRESHOLD_LOW,
           NOISE_THRESHOLD_HIGH, NOISE_THRESHOLD_HIGH + 1}

\* Gains the actuator can hold, fixed-point.
Gains == Db(MIN_GAIN_DB - GainMargin) .. Db(MAX_GAIN_DB + GainMargin)

\* ------------------------------------------------------ helper functions

\* Clamp without its lower bound.
ClampUpperOnly(gain_db) == Min2(gain_db, Db(MAX_GAIN_DB))

\* set_gain_db line 89: max(min(gain_db, MAX_GAIN_DB), MIN_GAIN_DB).
Clamp(gain_db) == Max2(Min2(gain_db, Db(MAX_GAIN_DB)), Db(MIN_GAIN_DB))

\* int(gain_db) of line 92: truncation toward zero, to whole dB.
IntPart(gain_db) ==
    IF gain_db >= 0 THEN gain_db \div Scale ELSE -((-gain_db) \div Scale)

\* The number set_gain_db puts into the amixer command for argument gain_db.
SetGainArg(gain_db) == IntPart(Clamp(gain_db))

\* StartupGain starting from the lowest gain.
StartupGainLowest == Db(MIN_GAIN_DB)

\* The startup argument (line 260): (MIN_GAIN_DB + MAX_GAIN_DB) // 2, an int.
StartupGain == Db((MIN_GAIN_DB + MAX_GAIN_DB) \div 2)

\* measure_rms (line 123).  An audio buffer is its length and the RMS of its
\* band-passed samples.
measure_rms(a) == IF a.len > 0 THEN a.level ELSE 0

\* butter (line 119) raises ValueError unless 0 < lowcut < highcut < fs/2.
FilterRaises(c) ==
    ~(0 < c.lowcut /\ c.lowcut < c.highcut /\ 2 * c.highcut < SAMPLING_RATE)

\* WatchdogCount without the reset of line 283.
WatchdogCountNoReset(r, count) ==
    IF r < NO_SIGNAL_THRESHOLD THEN count + 1 ELSE count

\* Lines 276-283: the counter after one measurement.
WatchdogCount(r, count) ==
    IF r < NO_SIGNAL_THRESHOLD THEN count + 1 ELSE 0

\* ShouldFire firing only when the counter reaches the limit.
ShouldFireOnce(r, count) ==
    r < NO_SIGNAL_THRESHOLD /\ count = NO_SIGNAL_COUNT_THRESHOLD

\* Lines 276, 279: whether NO_SIGNAL_ACTION is executed for measurement r,
\* count being the counter after its update.
ShouldFire(r, count) ==
    r < NO_SIGNAL_THRESHOLD /\ count >= NO_SIGNAL_COUNT_THRESHOLD

\* GainDecision with the upper threshold included in the loud branch.
GainDecisionInclusive(r, gain, c) ==
    IF r >= c.noise_high THEN Some(gain - Db(GAIN_STEP_DB))
    ELSE IF r < c.noise_low THEN Some(gain + Db(GAIN_STEP_DB))
    ELSE NoneV

\* GainDecision stepping by one dB when loud.
GainDecisionUnitStep(r, gain, c) ==
    IF r > c.noise_high THEN Some(gain - Db(1))
    ELSE IF r < c.noise_low THEN Some(gain + Db(GAIN_STEP_DB))
    ELSE NoneV

\* GainDecision dropping a proposal above MAX_GAIN_DB.
GainDecisionReject(r, gain, c) ==
    IF r > c.noise_high THEN Some(gain - Db(GAIN_STEP_DB))
    ELSE IF r < c.noise_low /\ gain + Db(GAIN_STEP_DB) <= Db(MAX_GAIN_DB)
         THEN Some(gain + Db(GAIN_STEP_DB))
    ELSE NoneV

\* GainDecision leaving the gain alone on a measurement below
\* NO_SIGNAL_THRESHOLD.
GainDecisionSilentHolds(r, gain, c) ==
    IF r < NO_SIGNAL_THRESHOLD THEN NoneV
    ELSE IF r > c.noise_high THEN Some(gain - Db(GAIN_STEP_DB))
    ELSE IF r < c.noise_low THEN Some(gain + Db(GAIN_STEP_DB))
    ELSE NoneV

\* GainDecision with the two branches exchanged.
GainDecisionSwapped(r, gain, c) ==
    IF r > c.noise_high THEN Some(gain + Db(GAIN_STEP_DB))
    ELSE IF r < c.noise_low THEN Some(gain - Db(GAIN_STEP_DB))
    ELSE NoneV

\* Lines 291-294: the argument of the set_gain_db call, NoneV when none is made.
GainDecision(r, gain, c) ==
    IF r > c.noise_high THEN Some(gain - Db(GAIN_STEP_DB))
    ELSE IF r < c.noise_low THEN Some(gain + Db(GAIN_STEP_DB))
    ELSE NoneV

\* A gain within [MIN_GAIN_DB, MAX_GAIN_DB].
InBounds(g) == Db(MIN_GAIN_DB) <= g /\ g <= Db(MAX_GAIN_DB)

\* The number of steps of GAIN_STEP_DB that span the bounds:
\* ceil((MAX_GAIN_DB - MIN_GAIN_DB) / GAIN_STEP_DB).
StepsAcross == (MAX_GAIN_DB - MIN_GAIN_DB + GAIN_STEP_DB - 1) \div GAIN_STEP_DB

\* No run of iterations on one side of the dead zone.
NoStreak == [dir |-> "none", n |-> 0]

\* The record of an iteration that has not done anything yet.  prev says how
\* the iteration before it ended; streak counts the iterations before it
\* that, one after the other, measured on the same side of the dead zone,
\* read and wrote the gain successfully and saw no change of the gain from
\* outside, the first of them reading a gain within the bounds.
FreshCycle ==
    [capt |-> "none", rms |-> NoneV, count_before |-> 0, wd |-> FALSE,
     fired |-> 0, read |-> "none", gain |-> NoneV, writes |-> 0,
     written |-> NoneV, write_ok |-> FALSE, prev |-> "none",
     streak |-> NoStreak]

\* How iteration c ended, for the record of the next one.
PrevOf(c) ==
    IF c.capt = "fail" THEN "capture_failed"
    ELSE IF c.capt = "empty" THEN "capture_empty"
    ELSE IF c.writes > 0 /\ ~c.write_ok THEN "write_failed"
    ELSE "none"

\* The side of the dead zone that iteration c measured on (lines 291, 293).
SideOf(c, k) ==
    IF c.rms = NoneV THEN "none"
    ELSE IF Val(c.rms) > k.noise_high THEN "loud"
    ELSE IF Val(c.rms) < k.noise_low THEN "quiet"
    ELSE "none"

\* The streak after iteration c under configuration k.
NextStreak(c, k) ==
    LET side == SideOf(c, k)
        went == c.read = "ok" /\ c.writes = 1 /\ c.write_ok
        goes_on == c.streak.dir = side /\ c.streak.n > 0
    IN  IF side # "none" /\ went /\ (goes_on \/ InBounds(Val(c.gain)))
        THEN [dir |-> side,
              n |-> Min2(StepsAcross, (IF goes_on THEN c.streak.n ELSE 0) + 1)]
        ELSE NoStreak

\* No calibration session: main was started without --calibrate.
CalIdle == [pc |-> "idle", params |-> NoneV, proposal |-> NoneV,
            script |-> NoneV]

\* The latest NO_SIGNAL_COUNT_THRESHOLD entries of s.
Latest(s) ==
    IF Len(s) <= NO_SIGNAL_COUNT_THRESHOLD THEN s
    ELSE SubSeq(s, Len(s) - NO_SIGNAL_COUNT_THRESHOLD + 1, Len(s))

\* ------------------------------------------------------------ calibration

REFERENCE_PRESSURE == 200
DEFAULT_SNR == 80
DEFAULT_SELF_NOISE == 14
DEFAULT_CLIPPING == 120
DEFAULT_SENSITIVITY == -28

RECURSIVE GCD(_, _)
GCD(a, b) == IF b = 0 THEN a ELSE GCD(b, a % b)

\* An amplitude (num / den) * 10^(db / 20), db fixed-point, in lowest terms.
Amp(num, den, db) ==
    LET g == GCD(num, den) IN [num |-> num \div g, den |-> den \div g, db |-> db]

\* A plain number as an amplitude.
Num(n) == Amp(n, 1, 0)

\* 10 ** (x / 20) for a fixed-point x (lines 56-57, 153-154).
Pow10Db(x) == Amp(1, 1, x)

\* a * b and a / b.
AmpMul(a, b) == Amp(a.num * b.num, a.den * b.den, a.db + b.db)
AmpDiv(a, b) == Amp(a.num * b.den, a.den * b.num, a.db - b.db)

RECURSIVE TenTo(_)
TenTo(k) == IF k = 0 THEN 1 ELSE 10 * TenTo(k - 1)

\* The number an amplitude is, as a fraction in lowest terms; its db is a
\* whole number of decades.
AmpValue(a) ==
    LET k == a.db \div Db(20) IN
        IF k >= 0 THEN Amp(a.num * TenTo(k), a.den, 0)
        ELSE Amp(a.num, a.den * TenTo(-k), 0)

\* round() and the rounding of a format like .7f: the integer nearest to
\* num / den, the even one of the two when it lies halfway.
RoundHalfEven(num, den) ==
    LET q == num \div den
        r == num - q * den
    IN  IF 2 * r < den THEN q
        ELSE IF 2 * r > den THEN q + 1
        ELSE IF q % 2 = 0 THEN q ELSE q + 1

\* def_full_scale (lines 54-58).
def_full_scale ==
    AmpMul(AmpMul(Num(REFERENCE_PRESSURE), Pow10Db(Db(DEFAULT_CLIPPING))),
           Pow10Db(Db(DEFAULT_SENSITIVITY)))

\* The default microphone profile (lines 48-51).
DefaultProfile ==
    [snr |-> DEFAULT_SNR, self_noise |-> DEFAULT_SELF_NOISE,
     clipping |-> Db(DEFAULT_CLIPPING), sensitivity |-> Db(DEFAULT_SENSITIVITY)]

\* The profiles interactive_calibration can return (lines 140-144): the
\* sensitivity is the default one, or 1/Scale dB, 1 + 1/Scale dB or 20 dB
\* away from it, and the clipping level makes up for it to a whole number of
\* decades of full-scale amplitude.
SensShifts == {-Db(20), -Db(1) - 1, -1, 0, 1, Db(1) + 1, Db(20)}
Decades == {-3, -1, 0, 1}
Profiles ==
    { [snr |-> s, self_noise |-> n,
       clipping |-> Db(DEFAULT_CLIPPING) + k * Db(20) - ds,
       sensitivity |-> Db(DEFAULT_SENSITIVITY) + ds] :
      s \in {DEFAULT_SNR \div 2, DEFAULT_SNR - 10, DEFAULT_SNR},
      n \in {DEFAULT_SELF_NOISE, DEFAULT_SELF_NOISE + 6},
      k \in Decades, ds \in SensShifts }

\* gain_offset with the difference taken the other way round.
GainOffsetReversed(sensitivity) == sensitivity - Db(DEFAULT_SENSITIVITY)

\* gain_offset (line 162).
GainOffset(sensitivity) == Db(DEFAULT_SENSITIVITY) - sensitivity

\* calibrate_and_propose with the two proposed thresholds exchanged.
calibrate_and_propose_exchanged(mic_params) ==
    LET user_full_scale ==
            AmpMul(AmpMul(Num(REFERENCE_PRESSURE), Pow10Db(mic_params.clipping)),
                   Pow10Db(mic_params.sensitivity))
        fraction_high_default == AmpDiv(Num(NOISE_THRESHOLD_HIGH), def_full_scale)
        fraction_low_default == AmpDiv(Num(NOISE_THRESHOLD_LOW), def_full_scale)
        snr_ratio == AmpDiv(Num(mic_params.snr), Num(DEFAULT_SNR))
    IN  [noise_threshold_high |->
            AmpMul(AmpMul(fraction_low_default, user_full_scale), snr_ratio),
         noise_threshold_low |->
            AmpMul(AmpMul(fraction_high_default, user_full_scale), snr_ratio),
         min_gain_db |-> Db(MIN_GAIN_DB) + GainOffset(mic_params.sensitivity),
         max_gain_db |-> Db(MAX_GAIN_DB) + GainOffset(mic_params.sensitivity)]

\* calibrate_and_propose (lines 146-188): the thresholds as amplitudes, the
\* gain bounds fixed-point.
calibrate_and_propose(mic_params) ==
    LET user_full_scale ==
            AmpMul(AmpMul(Num(REFERENCE_PRESSURE), Pow10Db(mic_params.clipping)),
                   Pow10Db(mic_params.sensitivity))
        fraction_high_default == AmpDiv(Num(NOISE_THRESHOLD_HIGH), def_full_scale)
        fraction_low_default == AmpDiv(Num(NOISE_THRESHOLD_LOW), def_full_scale)
        snr_ratio == AmpDiv(Num(mic_params.snr), Num(DEFAULT_SNR))
    IN  [noise_threshold_high |->
            AmpMul(AmpMul(fraction_high_default, user_full_scale), snr_ratio),
         noise_threshold_low |->
            AmpMul(AmpMul(fraction_low_default, user_full_scale), snr_ratio),
         min_gain_db |-> Db(MIN_GAIN_DB) + GainOffset(mic_params.sensitivity),
         max_gain_db |-> Db(MAX_GAIN_DB) + GainOffset(mic_params.sensitivity)]

\* The .7f format of a threshold (lines 192-193), in units of 1e-7.
Format7(a) == RoundHalfEven(AmpValue(a).num, AmpValue(a).den)

\* RoundGain without round(): int() alone.
RoundGainTruncates(g) == g \div Scale

\* int(round(gain)) of a fixed-point gain (lines 194-195), in whole dB.
RoundGain(g) == RoundHalfEven(g, Scale)

\* persist_calibration_to_script (lines 190-200): the values substituted into
\* the script.
persist_calibration_to_script(proposal) ==
    [NOISE_THRESHOLD_HIGH |-> Format7(proposal.noise_threshold_high),
     NOISE_THRESHOLD_LOW |-> Format7(proposal.noise_threshold_low),
     MIN_GAIN_DB |-> RoundGain(proposal.min_gain_db),
     MAX_GAIN_DB |-> RoundGain(proposal.max_gain_db)]

\* ------------------------------------------------------------------ Init

Init ==
    /\ cfg \in Configs
    /\ pc = "start"
    /\ no_signal_count = 0
    /\ audio = NoneV
    /\ rms = NoneV
    /\ current_gain = NoneV
    /\ hw_gain \in Gains
    /\ startup_write = NoneV
    /\ cyc = FreshCycle
    /\ hist = <<>>
    /\ cal = CalIdle

\* --------------------------------------------------------------- actions

\* Lines 259-262: the startup set_gain_db call, which amixer accepts (ok) or
\* fails with a non-zero exit status, then no_signal_count = 0.
Startup ==
    /\ pc = "start"
    /\ \E ok \in BOOLEAN :
          /\ startup_write' = Some([arg |-> SetGainArg(StartupGain), ok |-> ok])
          /\ hw_gain' = IF ok THEN Db(SetGainArg(StartupGain)) ELSE hw_gain
    /\ no_signal_count' = 0
    /\ pc' = "capture"
    /\ UNCHANGED <<cal, cfg, audio, rms, current_gain, cyc, hist>>

\* CaptureFail resetting the counter.
CaptureFailResets ==
    /\ pc = "capture"
    /\ audio' = NoneV
    /\ cyc' = [cyc EXCEPT !.capt = "fail", !.count_before = no_signal_count]
    /\ no_signal_count' = 0
    /\ pc' = "sleep"
    /\ UNCHANGED <<cal, cfg, rms, current_gain, hw_gain, startup_write, hist>>

\* CaptureFail counting the failed capture as a silent iteration.
CaptureFailCounts ==
    /\ pc = "capture"
    /\ audio' = NoneV
    /\ cyc' = [cyc EXCEPT !.capt = "fail", !.count_before = no_signal_count]
    /\ no_signal_count' = Min2(no_signal_count + 1, MaxCount)
    /\ pc' = "sleep"
    /\ UNCHANGED <<cal, cfg, rms, current_gain, hw_gain, startup_write, hist>>

\* Lines 265-269 with capture_audio returning None (ffmpeg exit status not 0,
\* or an exception): sleep and continue.
CaptureFail ==
    /\ pc = "capture"
    /\ audio' = NoneV
    /\ cyc' = [cyc EXCEPT !.capt = "fail", !.count_before = no_signal_count]
    /\ pc' = "sleep"
    /\ UNCHANGED <<cal, cfg, no_signal_count, rms, current_gain, hw_gain,
                   startup_write, hist>>

\* CaptureEmpty going on to the measurement of the empty array.
CaptureEmptyMeasured ==
    /\ pc = "capture"
    /\ no_signal_count < MaxCount
    /\ audio' = Some([len |-> 0, level |-> 0])
    /\ cyc' = [cyc EXCEPT !.capt = "empty", !.count_before = no_signal_count]
    /\ pc' = "measure"
    /\ UNCHANGED <<cal, cfg, no_signal_count, rms, current_gain, hw_gain,
                   startup_write, hist>>

\* Lines 265-269 with capture_audio returning an empty array.
CaptureEmpty ==
    /\ pc = "capture"
    /\ audio' = Some([len |-> 0, level |-> 0])
    /\ cyc' = [cyc EXCEPT !.capt = "empty", !.count_before = no_signal_count]
    /\ pc' = "sleep"
    /\ UNCHANGED <<cal, cfg, no_signal_count, rms, current_gain, hw_gain,
                   startup_write, hist>>

\* Lines 265-266 with capture_audio returning samples.
CaptureOk ==
    /\ pc = "capture"
    /\ \E l \in Levels :
          /\ l < NO_SIGNAL_THRESHOLD => no_signal_count < MaxCount
          /\ audio' = Some([len |-> 1, level |-> l])
    /\ cyc' = [cyc EXCEPT !.capt = "ok", !.count_before = no_signal_count]
    /\ pc' = "measure"
    /\ UNCHANGED <<cal, cfg, no_signal_count, rms, current_gain, hw_gain,
                   startup_write, hist>>

\* Lines 271-273: band-pass filter and RMS.
Measure ==
    /\ pc = "measure"
    /\ ~FilterRaises(cfg)
    /\ rms' = Some(measure_rms(Val(audio)))
    /\ cyc' = [cyc EXCEPT !.rms = Some(measure_rms(Val(audio)))]
    /\ pc' = "watchdog"
    /\ UNCHANGED <<cal, cfg, no_signal_count, audio, current_gain, hw_gain,
                   startup_write, hist>>

\* Line 271 when butter raises: the exception is caught nowhere and ends
\* dynamic_gain_control.
FilterCrash ==
    /\ pc = "measure"
    /\ FilterRaises(cfg)
    /\ pc' = "terminated"
    /\ UNCHANGED <<cal, cfg, no_signal_count, audio, rms, current_gain, hw_gain,
                   startup_write, cyc, hist>>

\* Watchdog ending the iteration when it executes NO_SIGNAL_ACTION.
WatchdogSkipsOnFire ==
    /\ pc = "watchdog"
    /\ no_signal_count' = WatchdogCount(Val(rms), no_signal_count)
    /\ cyc' = [cyc EXCEPT
                 !.wd = TRUE,
                 !.fired = IF ShouldFire(Val(rms), no_signal_count')
                           THEN @ + 1 ELSE @]
    /\ hist' = Latest(Append(hist, Val(rms) < NO_SIGNAL_THRESHOLD))
    /\ pc' = IF ShouldFire(Val(rms), no_signal_count') THEN "sleep" ELSE "read"
    /\ UNCHANGED <<cal, cfg, audio, rms, current_gain, hw_gain, startup_write>>

\* Lines 275-283: no-signal detection, with the execution of
\* NO_SIGNAL_ACTION, whose outcome is ignored.
Watchdog ==
    /\ pc = "watchdog"
    /\ no_signal_count' = WatchdogCount(Val(rms), no_signal_count)
    /\ cyc' = [cyc EXCEPT
                 !.wd = TRUE,
                 !.fired = IF ShouldFire(Val(rms), no_signal_count')
                           THEN @ + 1 ELSE @]
    /\ hist' = Latest(Append(hist, Val(rms) < NO_SIGNAL_THRESHOLD))
    /\ pc' = "read"
    /\ UNCHANGED <<cal, cfg, audio, rms, current_gain, hw_gain, startup_write>>

\* ReadFail going on to the decision with the startup gain.
ReadFailFallsBack ==
    /\ pc = "read"
    /\ current_gain' = Some(StartupGain)
    /\ cyc' = [cyc EXCEPT !.read = "fail"]
    /\ pc' = "decide"
    /\ UNCHANGED <<cal, cfg, no_signal_count, audio, rms, hw_gain, startup_write,
                   hist>>

\* ReadFail leaving the loop.
ReadFailBreaks ==
    /\ pc = "read"
    /\ current_gain' = NoneV
    /\ cyc' = [cyc EXCEPT !.read = "fail"]
    /\ pc' = "terminated"
    /\ UNCHANGED <<cal, cfg, no_signal_count, audio, rms, hw_gain, startup_write,
                   hist>>

\* Lines 285-289 with get_gain_db returning None (amixer sget exits with a
\* non-zero status, or its output shows no dB value): sleep and continue.
ReadFail ==
    /\ pc = "read"
    /\ current_gain' = NoneV
    /\ cyc' = [cyc EXCEPT !.read = "fail"]
    /\ pc' = "sleep"
    /\ UNCHANGED <<cal, cfg, no_signal_count, audio, rms, hw_gain, startup_write,
                   hist>>

\* ReadOk returning the gain of the startup write instead of the control's.
ReadOkCached ==
    /\ pc = "read"
    /\ current_gain' = Some(Db(Val(startup_write).arg))
    /\ cyc' = [cyc EXCEPT !.read = "ok", !.gain = Some(Db(Val(startup_write).arg))]
    /\ pc' = "decide"
    /\ UNCHANGED <<cal, cfg, no_signal_count, audio, rms, hw_gain, startup_write,
                   hist>>

\* Lines 285-286 with get_gain_db returning the control's gain as a float.
ReadOk ==
    /\ pc = "read"
    /\ current_gain' = Some(hw_gain)
    /\ cyc' = [cyc EXCEPT !.read = "ok", !.gain = Some(hw_gain)]
    /\ pc' = "decide"
    /\ UNCHANGED <<cal, cfg, no_signal_count, audio, rms, hw_gain, startup_write,
                   hist>>

\* Lines 291-294: the gain decision and the set_gain_db call it makes, which
\* amixer accepts (ok) or fails.
Decide ==
    /\ pc = "decide"
    /\ LET d == GainDecision(Val(rms), Val(current_gain), cfg) IN
          IF d = NoneV
          THEN UNCHANGED <<hw_gain, cyc>>
          ELSE \E ok \in BOOLEAN :
                  /\ hw_gain' = IF ok THEN Db(SetGainArg(Val(d))) ELSE hw_gain
                  /\ cyc' = [cyc EXCEPT !.writes = @ + 1,
                                        !.written = Some(SetGainArg(Val(d))),
                                        !.write_ok = ok]
    /\ pc' = "sleep"
    /\ UNCHANGED <<cal, cfg, no_signal_count, audio, rms, current_gain,
                   startup_write, hist>>

\* Lines 268, 288, 296: time.sleep, then the next iteration, whose locals are
\* assigned before they are read.
Sleep ==
    /\ pc = "sleep"
    /\ pc' = "capture"
    /\ audio' = NoneV
    /\ rms' = NoneV
    /\ current_gain' = NoneV
    /\ cyc' = [FreshCycle EXCEPT !.prev = PrevOf(cyc),
                                 !.streak = NextStreak(cyc, cfg)]
    /\ UNCHANGED <<cal, cfg, no_signal_count, hw_gain, startup_write, hist>>

\* The control's gain is changed by something other than this program, which
\* ends any streak.  The program reads the control once per iteration (line 285) and writes it after
\* that read, so a change at any moment of an iteration shows to the program
\* as a change made before or after that iteration: it is taken between two
\* iterations.
Drift ==
    /\ pc = "capture"
    /\ \E g \in Gains : hw_gain' = g /\ g # hw_gain
    /\ cyc' = [cyc EXCEPT !.streak = NoStreak]
    /\ UNCHANGED <<cal, cfg, pc, no_signal_count, audio, rms, current_gain,
                   startup_write, hist>>

Loop ==
    \/ Startup
    \/ CaptureFail
    \/ CaptureEmpty
    \/ CaptureOk
    \/ Measure
    \/ FilterCrash
    \/ Watchdog
    \/ ReadFail
    \/ ReadOk
    \/ Decide
    \/ Sleep

Next == Loop \/ Drift

Spec == Init /\ [][Next]_vars

\* The external calls return and the sequential program takes its next step.
FairSpec == Spec /\ WF_vars(Loop)

\* ------------------------------------------------- the calibration session

\* main started with --calibrate (lines 300-303): dynamic_gain_control is
\* never called.
CalInit ==
    /\ cfg = DefaultCfg
    /\ pc = "not_run"
    /\ no_signal_count = 0
    /\ audio = NoneV
    /\ rms = NoneV
    /\ current_gain = NoneV
    /\ hw_gain = StartupGain
    /\ startup_write = NoneV
    /\ cyc = FreshCycle
    /\ hist = <<>>
    /\ cal = [CalIdle EXCEPT !.pc = "main"]

\* Line 304: interactive_calibration returns the microphone profile.
InteractiveCalibration ==
    /\ cal.pc = "main"
    /\ \E p \in Profiles : cal' = [cal EXCEPT !.pc = "calibrate", !.params = Some(p)]
    /\ UNCHANGED <<cfg, pc, no_signal_count, audio, rms, current_gain, hw_gain,
                   startup_write, cyc, hist>>

\* Lines 305-306: calibrate_and_propose, then the question whether to save.
CalibrateAndPropose ==
    /\ cal.pc = "calibrate"
    /\ cal' = [cal EXCEPT !.pc = "ask",
                          !.proposal = Some(calibrate_and_propose(Val(cal.params)))]
    /\ UNCHANGED <<cfg, pc, no_signal_count, audio, rms, current_gain, hw_gain,
                   startup_write, cyc, hist>>

\* Lines 307-309, 312: the answer is yes, the script is rewritten, exit.
SaveProposal ==
    /\ cal.pc = "ask"
    /\ cal' = [cal EXCEPT
                 !.pc = "exit",
                 !.script = Some(persist_calibration_to_script(Val(cal.proposal)))]
    /\ UNCHANGED <<cfg, pc, no_signal_count, audio, rms, current_gain, hw_gain,
                   startup_write, cyc, hist>>

\* Lines 310-312: any other answer, exit.
DeclineProposal ==
    /\ cal.pc = "ask"
    /\ cal' = [cal EXCEPT !.pc = "exit"]
    /\ UNCHANGED <<cfg, pc, no_signal_count, audio, rms, current_gain, hw_gain,
                   startup_write, cyc, hist>>

CalNext ==
    \/ InteractiveCalibration
    \/ CalibrateAndPropose
    \/ SaveProposal
    \/ DeclineProposal

CalSpec == CalInit /\ [][CalNext]_vars

\* ------------------------------------------------------- claim vocabulary

\* The iteration has measured, and its measurement is below the silence
\* threshold.
Silent == cyc.rms # NoneV /\ Val(cyc.rms) < NO_SIGNAL_THRESHOLD

\* The latest NO_SIGNAL_COUNT_THRESHOLD measured iterations were all silent.
AllSilent ==
    /\ Len(hist) = NO_SIGNAL_COUNT_THRESHOLD
    /\ \A i \in 1..Len(hist) : hist[i]

\* The iteration is over: the program is at one of its time.sleep calls.
CycleOver == pc = "sleep"

\* The iteration read the gain successfully and has finished its decision.
Decided == CycleOver /\ cyc.read = "ok"

\* ---------------------------------------------------------------- claims

\* C1: every gain value handed to the actuator, by the startup write and by
\* every per-iteration write, lies in [MIN_GAIN_DB, MAX_GAIN_DB], whatever
\* the gain read was; a write the actuator accepted leaves it in bounds, and
\* an iteration that found the actuator in bounds leaves it in bounds.
C1_WritesInBounds ==
    /\ startup_write # NoneV =>
          /\ MIN_GAIN_DB <= Val(startup_write).arg
          /\ Val(startup_write).arg <= MAX_GAIN_DB
    /\ cyc.written # NoneV =>
          /\ MIN_GAIN_DB <= Val(cyc.written)
          /\ Val(cyc.written) <= MAX_GAIN_DB
    /\ (CycleOver /\ cyc.writes > 0 /\ cyc.write_ok) => InBounds(hw_gain)
    /\ (Decided /\ InBounds(Val(cyc.gain))) => InBounds(hw_gain)

\* An iteration read a gain below the bounds, stepped it further down and
\* the actuator accepted the write.
C1_Witness ==
    /\ Decided
    /\ Val(cyc.gain) < Db(MIN_GAIN_DB)
    /\ Val(cyc.rms) > cfg.noise_high
    /\ cyc.writes = 1
    /\ cyc.write_ok
    /\ hw_gain = Db(MIN_GAIN_DB)

\* C2: an iteration whose measurement lies in the dead zone, both ends
\* included, issues no actuator write and leaves the actuator's gain as it
\* read it, whatever that gain is.
C2_DeadZoneNoWrite ==
    (/\ CycleOver
     /\ cyc.rms # NoneV
     /\ cfg.noise_low <= Val(cyc.rms)
     /\ Val(cyc.rms) <= cfg.noise_high)
    => /\ cyc.writes = 0
       /\ cyc.written = NoneV
       /\ cyc.read = "ok" => hw_gain = Val(cyc.gain)

\* An iteration measured exactly noise_high with the actuator above the
\* bounds, and has finished.
C2_Witness ==
    /\ Decided
    /\ Val(cyc.rms) = cfg.noise_high
    /\ cfg.noise_low < cfg.noise_high
    /\ Val(cyc.gain) > Db(MAX_GAIN_DB)
    /\ hw_gain = Val(cyc.gain)

\* C3 as stated: with a measurement above noise_high and a successful gain
\* read, the value written is clamp(current_gain - step).
C3_WrittenIsClampedStep ==
    (Decided /\ Val(cyc.rms) > cfg.noise_high)
    => /\ cyc.written # NoneV
       /\ Db(Val(cyc.written)) = Clamp(Val(cyc.gain) - Db(GAIN_STEP_DB))

\* C3 as amended: with a measurement above noise_high and a successful gain
\* read, exactly one write is made and the value written is the whole number
\* of dB of clamp(current_gain - step), its fraction dropped; a gain of 34
\* is written as 31.
C3_WrittenIsWholeDbOfClampedStep ==
    (Decided /\ Val(cyc.rms) > cfg.noise_high)
    => /\ cyc.writes = 1
       /\ cyc.written # NoneV
       /\ LET c == Clamp(Val(cyc.gain) - Db(GAIN_STEP_DB))
              w == Val(cyc.written)
          IN  /\ Db(w) <= c
              /\ c < Db(w + 1)
              /\ Val(cyc.gain) = Db(34) => w = 31

\* An iteration measured above noise_high, read 34 dB and wrote 31.
C3_Witness ==
    /\ Decided
    /\ Val(cyc.rms) > cfg.noise_high
    /\ Val(cyc.gain) = Db(34)
    /\ cyc.written = Some(31)

\* C4: with a measurement below noise_low and a successful gain read the
\* proposal current_gain + step is always written, never dropped: a proposal
\* at or above MAX_GAIN_DB is written as MAX_GAIN_DB, one at or below
\* MIN_GAIN_DB as MIN_GAIN_DB, one in between as its whole number of dB; a
\* gain of 37 proposes 40, written as 38.
C4_StepThenTruncate ==
    (Decided /\ Val(cyc.rms) <= cfg.noise_high /\ Val(cyc.rms) < cfg.noise_low)
    => /\ cyc.writes = 1
       /\ cyc.written # NoneV
       /\ LET p == Val(cyc.gain) + Db(GAIN_STEP_DB)
              w == Val(cyc.written)
          IN  /\ p >= Db(MAX_GAIN_DB) => w = MAX_GAIN_DB
              /\ p <= Db(MIN_GAIN_DB) => w = MIN_GAIN_DB
              /\ (Db(MIN_GAIN_DB) < p /\ p < Db(MAX_GAIN_DB))
                    => (Db(w) <= p /\ p < Db(w + 1))
              /\ Val(cyc.gain) = Db(37) => (p = Db(40) /\ w = 38)

\* An iteration measured below noise_low, read 37 dB and wrote 38.
C4_Witness ==
    /\ Decided
    /\ Val(cyc.rms) < cfg.noise_low
    /\ Val(cyc.gain) = Db(37)
    /\ cyc.written = Some(38)
    /\ cyc.write_ok
    /\ hw_gain = Db(38)

\* C5: recovery is due in an iteration exactly when the latest
\* NO_SIGNAL_COUNT_THRESHOLD measurements, this one included, were all below
\* NO_SIGNAL_THRESHOLD: from a counter of 0 the third consecutive silent
\* measurement fires and the first and second do not, and a measurement at
\* or above the threshold sets the counter to 0.
C5_ThirdSilentFires ==
    cyc.wd =>
       /\ (cyc.fired >= 1) <=> AllSilent
       /\ ~Silent => no_signal_count = 0
       /\ (Silent /\ cyc.count_before < NO_SIGNAL_COUNT_THRESHOLD - 1)
             => cyc.fired = 0
       /\ (Silent /\ cyc.count_before = NO_SIGNAL_COUNT_THRESHOLD - 1)
             => cyc.fired = 1

\* The third consecutive silent measurement has fired the recovery action.
C5_Witness ==
    /\ cyc.wd
    /\ Silent
    /\ cyc.count_before = NO_SIGNAL_COUNT_THRESHOLD - 1
    /\ no_signal_count = NO_SIGNAL_COUNT_THRESHOLD
    /\ cyc.fired = 1

\* C6: once the counter has reached the limit, every further silent measured
\* iteration fires the recovery action exactly once and increases the
\* counter by one; no iteration fires more than once.
C6_FiresEverySilentCycle ==
    /\ cyc.fired <= 1
    /\ (cyc.wd /\ Silent /\ cyc.count_before >= NO_SIGNAL_COUNT_THRESHOLD)
          => /\ cyc.fired = 1
             /\ no_signal_count = cyc.count_before + 1

\* The recovery action has fired again in the iteration after the one that
\* reached the limit.
C6_Witness ==
    /\ cyc.wd
    /\ Silent
    /\ cyc.count_before = NO_SIGNAL_COUNT_THRESHOLD
    /\ no_signal_count = NO_SIGNAL_COUNT_THRESHOLD + 1
    /\ cyc.fired = 1

\* C7: an iteration whose capture fails goes to its sleep with the counter
\* as it was, no watchdog update, no recovery firing, no gain read and no
\* gain write, and after the sleep the next iteration's capture starts with
\* the counter and the actuator untouched.
C7_CaptureFailureSkipsCycle ==
    /\ [](cyc.capt = "fail" =>
            /\ pc = "sleep"
            /\ no_signal_count = cyc.count_before
            /\ ~cyc.wd
            /\ cyc.fired = 0
            /\ cyc.read = "none"
            /\ cyc.writes = 0
            /\ cyc.written = NoneV)
    /\ [][cyc.capt = "fail" =>
            /\ pc' = "capture"
            /\ no_signal_count' = no_signal_count
            /\ hw_gain' = hw_gain]_vars

\* A capture has failed after two silent measurements.
C7_Witness ==
    /\ cyc.capt = "fail"
    /\ pc = "sleep"
    /\ no_signal_count = NO_SIGNAL_COUNT_THRESHOLD - 1

\* C8: an iteration whose gain read fails goes to its sleep without a gain
\* write, whatever it measured, and after the sleep the next iteration's
\* capture starts; its watchdog update has taken place: the counter is
\* incremented or reset and the recovery action has fired when due.
C8_ReadFailureSkipsDecision ==
    /\ [](cyc.read = "fail" =>
            /\ pc = "sleep"
            /\ cyc.writes = 0
            /\ cyc.written = NoneV
            /\ cyc.wd
            /\ Silent => no_signal_count = cyc.count_before + 1
            /\ ~Silent => no_signal_count = 0
            /\ (cyc.fired = 1) <=>
                  (Silent /\ no_signal_count >= NO_SIGNAL_COUNT_THRESHOLD))
    /\ [][cyc.read = "fail" => (pc' = "capture" /\ hw_gain' = hw_gain)]_vars

\* A gain read has failed in an iteration that measured above noise_high.
C8_WitnessLoud ==
    /\ cyc.read = "fail"
    /\ cfg.noise_low < cfg.noise_high
    /\ Val(cyc.rms) > cfg.noise_high

InvalidCfg(c) ==
    \/ c.noise_low >= c.noise_high
    \/ c.lowcut >= c.highcut
    \/ 2 * c.lowcut >= SAMPLING_RATE
    \/ 2 * c.highcut >= SAMPLING_RATE

\* C10: with an invalid configuration the program stops before its loop: no
\* actuator write, no capture and no iteration happens, and the loop is
\* never ended from inside an iteration.
C10_InvalidCfgStopsBeforeLoop ==
    InvalidCfg(cfg) =>
       /\ startup_write = NoneV
       /\ cyc.capt = "none"
       /\ pc \in {"start", "terminated"}

\* C11: the startup write is the first thing the program does with the
\* actuator and the audio source: until it is made there has been no
\* capture, no watchdog update and no gain decision; once the loop is
\* entered it has been made, with floor((MIN_GAIN_DB + MAX_GAIN_DB) / 2),
\* which is 34; and it is made once: the program never returns to it and
\* what it handed to the actuator never changes.
C11_StartupWriteFirstOnce ==
    /\ [](pc = "start" =>
            /\ startup_write = NoneV
            /\ cyc = FreshCycle
            /\ hist = <<>>
            /\ audio = NoneV
            /\ rms = NoneV
            /\ current_gain = NoneV)
    /\ [](pc # "start" =>
            /\ startup_write # NoneV
            /\ 2 * Val(startup_write).arg <= MIN_GAIN_DB + MAX_GAIN_DB
            /\ MIN_GAIN_DB + MAX_GAIN_DB < 2 * Val(startup_write).arg + 2
            /\ Val(startup_write).arg = 34)
    /\ [][pc # "start" => pc' # "start"]_vars
    /\ [][startup_write # NoneV => startup_write' = startup_write]_vars

\* After the startup write of 34 an iteration has made its own write.
C11_Witness ==
    /\ pc = "sleep"
    /\ startup_write # NoneV
    /\ Val(startup_write).arg = 34
    /\ cyc.writes = 1

\* The number an amplitude is equals n.
AmpIs(a, n) == AmpValue(a).num = n * AmpValue(a).den

\* C12: for the default microphone profile calibrate_and_propose returns the
\* thresholds 0.01 and 0.001 and the gain bounds 30 and 38, and these are
\* the values a save writes into the script.
C12_IdentityProfile ==
    (cal.params = Some(DefaultProfile)) =>
       /\ cal.proposal # NoneV =>
             /\ AmpIs(Val(cal.proposal).noise_threshold_high, NOISE_THRESHOLD_HIGH)
             /\ AmpIs(Val(cal.proposal).noise_threshold_low, NOISE_THRESHOLD_LOW)
             /\ Val(cal.proposal).min_gain_db = Db(30)
             /\ Val(cal.proposal).max_gain_db = Db(38)
       /\ cal.script # NoneV =>
             Val(cal.script) = [NOISE_THRESHOLD_HIGH |-> 100000,
                                NOISE_THRESHOLD_LOW |-> 10000,
                                MIN_GAIN_DB |-> 30, MAX_GAIN_DB |-> 38]

\* The proposal for the default profile has been saved.
C12_Witness ==
    /\ cal.params = Some(DefaultProfile)
    /\ cal.proposal # NoneV
    /\ cal.script # NoneV
    /\ cal.pc = "exit"

Abs(x) == IF x < 0 THEN -x ELSE x

\* w is the integer nearest to num / den, the even one when num / den lies
\* halfway between two integers.
NearestTo(w, num, den) ==
    /\ 2 * Abs(w * den - num) <= den
    /\ 2 * Abs(w * den - num) = den => w % 2 = 0

\* C15: calibrate_and_propose moves both gain bounds by the same offset,
\* DEFAULT_SENSITIVITY minus the user's sensitivity, so their distance stays
\* MAX_GAIN_DB - MIN_GAIN_DB, and every profile with the same sensitivity
\* gets the same bounds, whatever its snr, self noise and clipping level.
C15_BoundsShiftBySensitivity ==
    cal.proposal # NoneV =>
       LET p == Val(cal.params)
           q == Val(cal.proposal)
           offset == Db(DEFAULT_SENSITIVITY) - p.sensitivity
       IN  /\ q.min_gain_db = Db(MIN_GAIN_DB) + offset
           /\ q.max_gain_db = Db(MAX_GAIN_DB) + offset
           /\ q.max_gain_db - q.min_gain_db = Db(MAX_GAIN_DB) - Db(MIN_GAIN_DB)
           /\ \A o \in Profiles :
                 o.sensitivity = p.sensitivity =>
                    /\ calibrate_and_propose(o).min_gain_db = q.min_gain_db
                    /\ calibrate_and_propose(o).max_gain_db = q.max_gain_db

\* A proposal has been made for a microphone 20 dB less sensitive than the
\* default one, with another snr, self noise and clipping level.
C15_Witness ==
    /\ cal.proposal # NoneV
    /\ Val(cal.params).sensitivity = Db(DEFAULT_SENSITIVITY) - Db(20)
    /\ Val(cal.params).snr # DEFAULT_SNR
    /\ Val(cal.params).self_noise # DEFAULT_SELF_NOISE
    /\ Val(cal.params).clipping # Db(DEFAULT_CLIPPING)
    /\ Val(cal.proposal).min_gain_db = Db(50)
    /\ Val(cal.proposal).max_gain_db = Db(58)

StepsInOrder ==
    /\ pc = "capture" => pc' \in {"capture", "measure", "sleep"}
    /\ pc = "measure" => pc' \in {"watchdog", "terminated"}
    /\ pc = "watchdog" => pc' = "read"
    /\ pc = "read" => pc' \in {"decide", "sleep"}
    /\ pc = "decide" => pc' = "sleep"
    /\ pc = "sleep" => pc' = "capture"

\* What an iteration has done so far shows how far it has come.
DoneInOrder ==
    /\ cyc.rms # NoneV => cyc.capt = "ok"
    /\ cyc.wd => cyc.rms # NoneV
    /\ cyc.fired > 0 => cyc.wd
    /\ cyc.read # "none" => cyc.wd
    /\ cyc.writes > 0 => cyc.read = "ok"
    /\ pc = "measure" => cyc.capt = "ok" /\ cyc.rms = NoneV
    /\ pc = "watchdog" => cyc.rms # NoneV /\ ~cyc.wd
    /\ pc = "read" => cyc.wd /\ cyc.read = "none"
    /\ pc = "decide" => cyc.read = "ok" /\ cyc.writes = 0

\* The measurement stays what it is from the watchdog to the gain decision.
MeasurementKept == pc \in {"watchdog", "read", "decide"} => rms' = rms

\* C13: an iteration whose capture succeeds goes through capture, measure,
\* watchdog (with the recovery action), gain read, gain write, sleep in this
\* order; the watchdog and the gain decision use the one measurement of the
\* iteration; an iteration that executes the recovery action still reads the
\* gain and, the read succeeding, takes its gain decision.
C13_OrderWithinCycle ==
    /\ [][StepsInOrder]_vars
    /\ [](DoneInOrder)
    /\ [](pc \in {"watchdog", "read", "decide"} => rms = cyc.rms)
    /\ [][MeasurementKept]_vars
    /\ [](CycleOver /\ cyc.wd =>
            /\ cyc.fired = (IF ShouldFire(Val(cyc.rms), no_signal_count) THEN 1 ELSE 0)
            /\ cyc.read # "none"
            /\ cyc.read = "ok" =>
                  /\ cyc.writes = (IF SideOf(cyc, cfg) = "none" THEN 0 ELSE 1)
                  /\ cyc.writes = 1 =>
                        cyc.written = Some(SetGainArg(Val(
                            GainDecision(Val(cyc.rms), Val(cyc.gain), cfg)))))

\* An iteration has executed the recovery action and then written a gain.
C13_Witness ==
    /\ CycleOver
    /\ cyc.fired = 1
    /\ cyc.read = "ok"
    /\ cyc.writes = 1
    /\ cyc.write_ok

\* The gain read of an iteration returns the gain the control has then.
ReadIsFresh == pc = "read" /\ pc' = "decide" => current_gain' = Some(hw_gain)

\* The gain decision writes at most once, and what it writes is the whole-dB
\* part of the control's gain one step down or up, clamped.
WriteFromControl ==
    pc = "decide" =>
       /\ cyc'.writes <= 1
       /\ cyc'.writes = 1 =>
             /\ cyc'.written \in {Some(SetGainArg(hw_gain - Db(GAIN_STEP_DB))),
                                  Some(SetGainArg(hw_gain + Db(GAIN_STEP_DB)))}
             /\ ~cyc'.write_ok => hw_gain' = hw_gain

\* C14 as stated: the iteration after a failed gain write, when it writes,
\* writes clamp(g - step) or clamp(g + step) for the gain g that it read.
C14_NextWriteIsClampedStep ==
    CycleOver /\ cyc.prev = "write_failed" /\ cyc.writes = 1 =>
       Db(Val(cyc.written)) \in {Clamp(Val(cyc.gain) - Db(GAIN_STEP_DB)),
                                 Clamp(Val(cyc.gain) + Db(GAIN_STEP_DB))}

\* C14 as amended: an iteration makes at most one gain write, failed or not;
\* every gain read returns the gain the control has at that moment, whatever
\* was written or attempted before; and the write of an iteration is the
\* whole-dB part of clamp(g - step) or clamp(g + step) for the gain g of the
\* control, also in the iteration after a failed write.
C14_NoRetryFreshRead ==
    /\ [](cyc.writes <= 1)
    /\ [][ReadIsFresh]_vars
    /\ [][WriteFromControl]_vars
    /\ [](CycleOver /\ cyc.prev = "write_failed" /\ cyc.writes = 1 =>
            Val(cyc.written) \in
                  {IntPart(Clamp(Val(cyc.gain) - Db(GAIN_STEP_DB))),
                   IntPart(Clamp(Val(cyc.gain) + Db(GAIN_STEP_DB)))})

\* The iteration after a failed gain write has read a gain with a fraction,
\* other than the gain of the startup write, and has written.
C14_Witness ==
    /\ CycleOver
    /\ cyc.prev = "write_failed"
    /\ cyc.writes = 1
    /\ cyc.write_ok
    /\ Val(cyc.gain) % Scale # 0
    /\ Val(cyc.gain) # Db(Val(startup_write).arg)

RECURSIVE TrailingSilent(_)
\* The number of silent measurements at the end of a sequence of silence flags.
TrailingSilent(s) ==
    IF s = <<>> \/ ~s[Len(s)] THEN 0
    ELSE 1 + TrailingSilent(SubSeq(s, 1, Len(s) - 1))

\* The counter changes in the watchdog step only.
CountOnlyInWatchdog ==
    /\ pc # "watchdog" /\ pc # "start" => no_signal_count' = no_signal_count
    /\ pc = "watchdog" =>
          no_signal_count' = (IF Val(rms) < NO_SIGNAL_THRESHOLD
                              THEN no_signal_count + 1 ELSE 0)

\* C17: no_signal_count is a natural number, the number of silent
\* measurements that end the sequence of measurements made so far (compared
\* over the latest NO_SIGNAL_COUNT_THRESHOLD measurements), iterations
\* without measurement leaving it as it is; an iteration executes the
\* recovery action exactly when it has measured, the measurement is silent
\* and the counter after its increment is at least the limit; so a silent
\* measurement after two silent ones and a failed capture fires.
C17_CounterIsSilentRun ==
    /\ [](no_signal_count \in Nat)
    /\ [](Min2(no_signal_count, NO_SIGNAL_COUNT_THRESHOLD) = TrailingSilent(hist))
    /\ [][CountOnlyInWatchdog]_vars
    /\ [](pc # "watchdog" =>
            (cyc.fired = 1 <=>
                cyc.wd /\ Silent /\ no_signal_count >= NO_SIGNAL_COUNT_THRESHOLD))
    /\ [](cyc.fired \in {0, 1})
    /\ [](cyc.wd /\ Silent /\ cyc.prev = "capture_failed"
             /\ cyc.count_before = NO_SIGNAL_COUNT_THRESHOLD - 1
          => cyc.fired = 1)

\* After two silent measurements and a failed capture, a silent measurement
\* has fired the recovery action.
C17_Witness ==
    /\ CycleOver
    /\ cyc.prev = "capture_failed"
    /\ cyc.count_before = NO_SIGNAL_COUNT_THRESHOLD - 1
    /\ Silent
    /\ cyc.fired = 1
    /\ no_signal_count = NO_SIGNAL_COUNT_THRESHOLD

\* The step that captures an empty array changes nothing but the audio and
\* goes to sleep.
EmptyCaptureStep ==
    pc = "capture" /\ audio' # NoneV /\ Val(audio').len = 0 =>
       /\ pc' = "sleep"
       /\ UNCHANGED <<no_signal_count, rms, current_gain, hw_gain, hist>>

\* C18: an iteration whose capture returns an empty array ends like one
\* whose capture fails: it measures nothing, leaves no_signal_count as it
\* was, executes no recovery action and reads and writes no gain; so empty
\* captures one after the other never execute the recovery action.
C18_EmptyCaptureSkipsCycle ==
    /\ [][EmptyCaptureStep]_vars
    /\ [](cyc.capt = "empty" =>
            /\ pc = "sleep"
            /\ rms = NoneV /\ cyc.rms = NoneV
            /\ no_signal_count = cyc.count_before
            /\ ~cyc.wd /\ cyc.fired = 0
            /\ cyc.read = "none" /\ current_gain = NoneV
            /\ cyc.writes = 0)

\* A second empty capture in a row, after two silent measurements, has left
\* the counter one below the limit.
C18_Witness ==
    /\ CycleOver
    /\ cyc.capt = "empty"
    /\ cyc.prev = "capture_empty"
    /\ no_signal_count = NO_SIGNAL_COUNT_THRESHOLD - 1
    /\ cyc.fired = 0

\* Both thresholds of the dead zone lie at or above NO_SIGNAL_THRESHOLD, as
\* they do by default, so that a silent measurement is a quiet one.
SilentIsQuiet ==
    cfg.noise_low >= NO_SIGNAL_THRESHOLD /\ cfg.noise_high >= NO_SIGNAL_THRESHOLD

\* C19 as stated: an iteration with a silent measurement and a successful
\* gain read writes clamp(current_gain + step).
C19_SilentWritesClampedStep ==
    Decided /\ Silent /\ cfg = DefaultCfg =>
       /\ cyc.writes = 1
       /\ Db(Val(cyc.written)) = Clamp(Val(cyc.gain) + Db(GAIN_STEP_DB))

\* C19 as amended: an iteration with a silent measurement and a successful
\* gain read takes the quiet branch, whether or not it has executed the
\* recovery action: it writes the whole-dB part of
\* clamp(current_gain + step), once; when amixer accepts the write the
\* control's gain is above the gain read, or at MAX_GAIN_DB.
C19_SilentIsQuietCycle ==
    Decided /\ Silent /\ SilentIsQuiet =>
       /\ cyc.writes = 1
       /\ Val(cyc.written) = IntPart(Clamp(Val(cyc.gain) + Db(GAIN_STEP_DB)))
       /\ cyc.write_ok =>
             /\ hw_gain = Db(Val(cyc.written))
             /\ hw_gain > Val(cyc.gain) \/ hw_gain = Db(MAX_GAIN_DB)
             /\ hw_gain <= Db(MAX_GAIN_DB)

\* The iteration that executed the recovery action has raised a gain read
\* with a fraction.
C19_Witness ==
    /\ Decided
    /\ Silent
    /\ cfg = DefaultCfg
    /\ cyc.fired = 1
    /\ cyc.writes = 1
    /\ cyc.write_ok
    /\ Val(cyc.gain) % Scale # 0
    /\ hw_gain > Val(cyc.gain)
    /\ hw_gain < Db(MAX_GAIN_DB)

\* The iteration has continued or begun a streak: it measured on one side
\* of the dead zone, read the gain and had its write accepted, and either
\* the iteration before it did the same on the same side with no change of
\* the control in between, or the gain it read was within the bounds.
InStreak(side) ==
    /\ CycleOver
    /\ SideOf(cyc, cfg) = side
    /\ cyc.read = "ok" /\ cyc.writes = 1 /\ cyc.write_ok
    /\ (cyc.streak.dir = side /\ cyc.streak.n > 0) \/ InBounds(Val(cyc.gain))

\* C20: while captures, gain reads and gain writes succeed and nothing else
\* changes the control, loud measurements never raise the gain, bring it from
\* any gain within the bounds to MIN_GAIN_DB within
\* ceil((MAX_GAIN_DB - MIN_GAIN_DB) / GAIN_STEP_DB) iterations and keep it
\* there; quiet measurements likewise never lower it and bring it to
\* MAX_GAIN_DB, where it stays.
C20_MonotoneConvergence ==
    /\ StepsAcross * GAIN_STEP_DB >= MAX_GAIN_DB - MIN_GAIN_DB
    /\ (StepsAcross - 1) * GAIN_STEP_DB < MAX_GAIN_DB - MIN_GAIN_DB
    /\ InStreak("loud") =>
          /\ hw_gain <= Val(cyc.gain)
          /\ hw_gain < Val(cyc.gain) \/ hw_gain = Db(MIN_GAIN_DB)
          /\ Val(cyc.gain) = Db(MIN_GAIN_DB) => hw_gain = Db(MIN_GAIN_DB)
    /\ InStreak("quiet") =>
          /\ hw_gain >= Val(cyc.gain)
          /\ hw_gain > Val(cyc.gain) \/ hw_gain = Db(MAX_GAIN_DB)
          /\ Val(cyc.gain) = Db(MAX_GAIN_DB) => hw_gain = Db(MAX_GAIN_DB)
    /\ pc # "sleep" /\ cyc.streak.dir = "loud" =>
          /\ hw_gain <= Max2(Db(MAX_GAIN_DB) - cyc.streak.n * Db(GAIN_STEP_DB),
                             Db(MIN_GAIN_DB))
          /\ cyc.streak.n >= StepsAcross => hw_gain = Db(MIN_GAIN_DB)
    /\ pc # "sleep" /\ cyc.streak.dir = "quiet" =>
          /\ hw_gain >= Min2(Db(MIN_GAIN_DB) + cyc.streak.n * Db(GAIN_STEP_DB) - Scale + 1,
                             Db(MAX_GAIN_DB))
          /\ cyc.streak.n >= StepsAcross => hw_gain = Db(MAX_GAIN_DB)

\* A loud iteration has kept the gain at MIN_GAIN_DB after a streak of
\* StepsAcross loud iterations that brought it there.
C20_Witness ==
    /\ InStreak("loud")
    /\ cyc.streak = [dir |-> "loud", n |-> StepsAcross]
    /\ Val(cyc.gain) = Db(MIN_GAIN_DB)
    /\ hw_gain = Db(MIN_GAIN_DB)

====
